---- MODULE Spec2Model ----
(***************************************************************************)
(* NPM-VersionLib: date-and-commit derived version strings.                *)
(*                                                                         *)
(* The model follows src/generate-version.ts (the library), src/version-   *)
(* cli.ts (the command line tool) and src/src/version.ts (a generated      *)
(* build-metadata artifact).                                               *)
(*                                                                         *)
(* JavaScript strings are sequences of one-character strings, so that      *)
(* formatting, trimming, parsing and splitting are computed and not        *)
(* assumed.  A constant piece of console text that holds no line break is  *)
(* kept as one element of such a sequence.                                 *)
(***************************************************************************)
EXTENDS Integers, Sequences, FiniteSets

VARIABLES
    now,        \* the system clock: the calendar date `new Date()` reads
    git,        \* the source-control installation and repository of the project
    running,    \* the calls in progress that are followed statement by statement
    pkg,        \* the file package.json of the project directory
    artifact,   \* the file src/version.ts of the project directory
    call,       \* the library call that returned last, with its result
    memo,       \* an earlier generateVersion call, kept for comparison
    ncalls,     \* how many library calls the process has made
    argv,       \* process.argv.slice(2) of the command line run
    pc,         \* the position of main() of the command line tool
    arg,        \* main(): let arg
    commitCountArg,      \* main(): let commitCountArg
    overrideCommitCount, \* main(): let overrideCommitCount
    version,    \* main(): const version
    pkg0,       \* package.json as it was when the command line run started
    stdout,     \* what the run or call wrote to standard output
    stderr,     \* what the run or call wrote to standard error
    ops,        \* the external operations the run or call performed, in order
    exitCode    \* the exit status of the command line run

vars == <<now, git, running, pkg, artifact, call, memo, ncalls, argv, pc, arg,
          commitCountArg, overrideCommitCount, version, pkg0, stdout, stderr,
          ops, exitCode>>

envVars == <<now, git, running>>
fileVars == <<pkg, artifact>>
libVars == <<call, memo, ncalls>>
cliVars == <<argv, pc, arg, commitCountArg, overrideCommitCount, version, pkg0,
             exitCode>>
ioVars == <<stdout, stderr, ops>>

(***************************************************************************)
(* Bounds of the model.                                                    *)
(***************************************************************************)
MaxCommits == 3     \* commits a repository holds for one day
MaxCalls == 3       \* library calls counted in one process
MaxLibraryCalls == 1    \* calls of one process when every function is callable

(***************************************************************************)
(* JavaScript values.                                                      *)
(***************************************************************************)
Undefined == [t |-> "undefined"]
Null == [t |-> "null"]
JsString(s) == [t |-> "string", s |-> s]
JsNumber(n) == [t |-> "number", n |-> n]
JsBoolean(b) == [t |-> "boolean", b |-> b]
NaN == [t |-> "NaN"]

\* An optional number (options.overrideCommitCount, let overrideCommitCount):
\* <<>> when undefined, <<n>> when set.
NoNumber == <<>>
Some(n) == <<n>>

WhiteSpace == {" ", "\t", "\n", "\r", "\f"}
LineBreak == <<"\n">>

Digits == <<"0", "1", "2", "3", "4", "5", "6", "7", "8", "9">>
HexDigits == Digits \o <<"a", "b", "c", "d", "e", "f">>

\* Number.prototype.toString() of an integer
RECURSIVE NatToString(_)
NatToString(n) ==
    IF n < 10 THEN <<Digits[n + 1]>>
    ELSE NatToString(n \div 10) \o <<Digits[(n % 10) + 1]>>

NumberToString(n) == IF n < 0 THEN <<"-">> \o NatToString(0 - n) ELSE NatToString(n)

\* String.prototype.slice(-k)
SliceLast(s, k) ==
    IF Len(s) <= k THEN s ELSE SubSeq(s, Len(s) - k + 1, Len(s))

\* String.prototype.padStart(width, fill) with a one-character fill
RECURSIVE PadStart(_, _, _)
PadStart(s, width, fill) ==
    IF Len(s) >= width THEN s ELSE PadStart(<<fill>> \o s, width, fill)

\* String.prototype.trim()
RECURSIVE TrimStart(_)
TrimStart(s) ==
    IF s # <<>> /\ Head(s) \in WhiteSpace THEN TrimStart(Tail(s)) ELSE s

RECURSIVE TrimEnd(_)
TrimEnd(s) ==
    IF s # <<>> /\ s[Len(s)] \in WhiteSpace
    THEN TrimEnd(SubSeq(s, 1, Len(s) - 1))
    ELSE s

Trim(s) == TrimEnd(TrimStart(s))

\* a text that is found in no string
IncludesNothing(s, t) == FALSE

\* String.prototype.includes(t)
Includes(s, t) ==
    \E i \in 1..(Len(s) - Len(t) + 1) : SubSeq(s, i, i + Len(t) - 1) = t

StartsWith(s, t) == Len(s) >= Len(t) /\ SubSeq(s, 1, Len(t)) = t
EndsWith(s, t) == Len(s) >= Len(t) /\ SubSeq(s, Len(s) - Len(t) + 1, Len(s)) = t

\* The value of a digit in a radix, or -1
DigitValue(c, radix) ==
    IF \E i \in 1..radix : HexDigits[i] = c
    THEN (CHOOSE i \in 1..radix : HexDigits[i] = c) - 1
    ELSE -1

\* The longest prefix of s made of digits of the radix, read as a number;
\* acc is the value so far, seen whether a digit was read.
RECURSIVE ParseDigits(_, _, _, _)
ParseDigits(s, radix, acc, seen) ==
    IF s # <<>> /\ DigitValue(Head(s), radix) >= 0
    THEN ParseDigits(Tail(s), radix, acc * radix + DigitValue(Head(s), radix), TRUE)
    ELSE [seen |-> seen, n |-> acc]

\* a parseInt that reads no number
ParseIntNaN(string, radix) == NaN

\* parseInt(string, radix); radix 0 stands for a radix that is not given
ParseInt(string, radix) ==
    LET S == TrimStart(string)
        negative == S # <<>> /\ Head(S) = "-"
        unsigned == IF S # <<>> /\ Head(S) \in {"+", "-"} THEN Tail(S) ELSE S
        hex == radix \in {0, 16}
               /\ (StartsWith(unsigned, <<"0", "x">>) \/ StartsWith(unsigned, <<"0", "X">>))
        R == IF hex THEN 16 ELSE IF radix = 0 THEN 10 ELSE radix
        Z == IF hex THEN SubSeq(unsigned, 3, Len(unsigned)) ELSE unsigned
        parsed == ParseDigits(Z, R, 0, FALSE)
    IN  IF ~parsed.seen THEN NaN
        ELSE JsNumber(IF negative THEN 0 - parsed.n ELSE parsed.n)

IsNaN(v) == v = NaN

(***************************************************************************)
(* The clock.  A date is what the Date getters return: getFullYear(),      *)
(* getMonth() (0 for January) and getDate().                               *)
(***************************************************************************)
Dates ==
    { [fullYear |-> 2005, month |-> 0, date |-> 9],
      [fullYear |-> 2025, month |-> 11, date |-> 26] }

Earlier(d, e) ==
    \/ d.fullYear < e.fullYear
    \/ d.fullYear = e.fullYear /\ d.month < e.month
    \/ d.fullYear = e.fullYear /\ d.month = e.month /\ d.date < e.date

\* The day as git writes and reads it: YYYY-MM-DD
TwoDigits(n) == <<Digits[(n \div 10) + 1], Digits[(n % 10) + 1]>>
GitDay(d) ==
    NatToString(d.fullYear) \o <<"-">> \o TwoDigits(d.month + 1) \o <<"-">>
        \o TwoDigits(d.date)

GitDays == { GitDay(d) : d \in Dates }

(***************************************************************************)
(* Source control.  mode says what running git does in the project         *)
(* directory; commits counts the commits of each day reachable from HEAD;  *)
(* output is what a git that misbehaves prints.                            *)
(***************************************************************************)
GitModes ==
    { "ok", "notInstalled", "notRepository", "nonZeroExit", "emptyOutput",
      "unparsableOutput" }

GitFailureModes == GitModes \ {"ok"}

UnparsableOutputs ==
    { <<"f", "a", "t", "a", "l", "\n">>, <<"-", "\n">>, <<"x", "3", "\n">> }

\* execSync(cmd, { encoding: 'utf-8', cwd }) for the rev-list command of
\* getGitCommitCount: the text git prints, or an exception.
ExecSync(todayStr, g) ==
    CASE g.mode = "ok" ->
            [threw |-> FALSE,
             out |-> NumberToString(IF todayStr \in DOMAIN g.commits
                                    THEN g.commits[todayStr] ELSE 0)
                        \o LineBreak]
      [] g.mode = "emptyOutput" -> [threw |-> FALSE, out |-> <<>>]
      [] g.mode = "unparsableOutput" -> [threw |-> FALSE, out |-> g.output]
      [] OTHER -> [threw |-> TRUE, out |-> <<>>]

(***************************************************************************)
(* src/generate-version.ts                                                 *)
(***************************************************************************)
\* The external operations of the library, as ops records them: the git
\* query and the reads and writes of the two files.  An operation is
\* recorded when it is attempted, whether it throws or not.
GitRevList == "execSync git rev-list"
ReadManifest == "readFileSync package.json"
WriteManifest == "writeFileSync package.json"
WriteArtifact == "writeFileSync src/version.ts"

\* the operations of the git queries a call made
QueryOps(queries) == [i \in 1..Len(queries) |-> GitRevList]

Options == [silent : BOOLEAN, overrideCommitCount : {NoNumber} \cup {Some(n) : n \in {0, 10}}]

\* parseInt(result) || 0
OrZero(v) == IF IsNaN(v) \/ v.n = 0 THEN 0 ELSE v.n

\* The result of a function body that ran to its return statement
Returned(v) == [threw |-> FALSE, ret |-> v]
Threw == [threw |-> TRUE]

\* try { body } catch { return fallback }
TryCatch(body, fallback) == IF body.threw THEN Returned(fallback) ELSE body

\* getGitCommitCount without its try/catch
getGitCommitCountUncaught(todayStr, options, g) ==
    LET run == ExecSync(todayStr, g)
    IN  IF run.threw THEN Threw
        ELSE LET parsed == ParseInt(Trim(run.out), 0)
             IN  IF IsNaN(parsed) THEN Threw ELSE Returned(parsed.n)

\* getGitCommitCount that answers from the count an earlier call of the
\* process found for the day
getGitCommitCountCached(todayStr, options, g) ==
    LET run == ExecSync(todayStr, g)
        body == IF run.threw THEN Threw
                ELSE Returned(OrZero(ParseInt(Trim(run.out), 0)))
    IN  IF memo.fn = "generateVersion" /\ GitDay(memo.date) = todayStr
            /\ memo.commitCount # NoNumber
        THEN Returned(memo.commitCount[1])
        ELSE TryCatch(body, 0)

getGitCommitCount(todayStr, options, g) ==
    LET run == ExecSync(todayStr, g)
        body == IF run.threw THEN Threw
                ELSE Returned(OrZero(ParseInt(Trim(run.out), 0)))
    IN  TryCatch(body, 0)

\* getMonth() taken for the month of the year
MonthStringZeroBased(d) == PadStart(NumberToString(d.month), 2, "0")

\* The three date strings both generateVersion and getVersionInfo build
YearString(d) == SliceLast(NumberToString(d.fullYear), 2)
MonthString(d) == PadStart(NumberToString(d.month + 1), 2, "0")
DayString(d) == PadStart(NumberToString(d.date), 2, "0")
TodayStr(d) ==
    NumberToString(d.fullYear) \o <<"-">> \o MonthString(d) \o <<"-">> \o DayString(d)
DateVersion(d) ==
    YearString(d) \o <<".">> \o MonthString(d) \o <<".">> \o DayString(d)

\* an override that is announced by nothing
OverrideWarningNone(n) == <<>>

OverrideWarning(n) ==
    <<"WARNING: Using manual commit count (">> \o NumberToString(n)
        \o <<") instead of git history">> \o LineBreak

\* the override tested for truth: options.overrideCommitCount ? ... : ...
IsOverriddenTruthy(options) ==
    options.overrideCommitCount # NoNumber /\ options.overrideCommitCount[1] # 0

\* an override that counts only when silent is not set
IsOverriddenLoud(options) ==
    options.overrideCommitCount # NoNumber /\ ~options.silent

\* options.overrideCommitCount !== undefined
IsOverridden(options) == options.overrideCommitCount # NoNumber

\* the release type tested for the empty string alone
IsBlankUntrimmed(releaseType) == releaseType = <<>>

\* the release type tested as a number would be: "0" counts as absent
IsBlankOrZero(releaseType) ==
    \/ releaseType = <<>>
    \/ Trim(releaseType) = <<>>
    \/ (~IsNaN(ParseInt(releaseType, 10)) /\ ParseInt(releaseType, 10).n = 0)

\* !releaseType || releaseType.trim() === ''
IsBlank(releaseType) == releaseType = <<>> \/ Trim(releaseType) = <<>>

\* a version that counts the calls of the process into its build number
FormatVersionCounting(releaseType, d, commitCount) ==
    DateVersion(d) \o (IF IsBlank(releaseType) THEN <<>> ELSE <<"-">> \o releaseType)
        \o <<".">> \o NumberToString(commitCount + ncalls)

\* The string generateVersion returns for a date and a commit count
FormatVersion(releaseType, d, commitCount) ==
    IF IsBlank(releaseType)
    THEN DateVersion(d) \o <<".">> \o NumberToString(commitCount)
    ELSE DateVersion(d) \o <<"-">> \o releaseType \o <<".">>
            \o NumberToString(commitCount)

\* console.error of a caught error; "message" stands for err.message
ErrorGeneratingVersion ==
    <<"Error generating version: ", "message">> \o LineBreak
ErrorGeneratingVersionInfo ==
    <<"Error generating version info: ", "message">> \o LineBreak

\* generateVersion(releaseType, options) at clock reading d with source
\* control g: the value returned, the build number used, the git queries
\* made (their todayStr) and the text written to standard error.  threw
\* says whether an exception left the function: its whole body is a try
\* block, and so is the body of getVersionInfo.
generateVersion(releaseType, options, d, g) ==
    LET todayStr == TodayStr(d)
        overridden == IsOverridden(options)
        query == getGitCommitCount(todayStr, options, g)
        failed == (~overridden) /\ query.threw
        commitCount == IF overridden THEN options.overrideCommitCount[1]
                       ELSE query.ret
        warning == IF overridden /\ ~options.silent
                   THEN OverrideWarning(options.overrideCommitCount[1])
                   ELSE <<>>
    IN  IF failed
        THEN [ret |-> Undefined, commitCount |-> NoNumber, queries |-> <<todayStr>>,
              stderr |-> IF options.silent THEN <<>> ELSE ErrorGeneratingVersion,
              threw |-> FALSE]
        ELSE [ret |-> JsString(FormatVersion(releaseType, d, commitCount)),
              threw |-> FALSE,
              commitCount |-> Some(commitCount),
              queries |-> IF overridden THEN <<>> ELSE <<todayStr>>,
              stderr |-> warning]

Release == <<"r", "e", "l", "e", "a", "s", "e">>

\* getVersionInfo(releaseType, options); the timestamp field is left out
getVersionInfo(releaseType, options, d, g) ==
    LET todayStr == TodayStr(d)
        overridden == IsOverridden(options)
        query == getGitCommitCount(todayStr, options, g)
        failed == (~overridden) /\ query.threw
        buildNumber == IF overridden THEN options.overrideCommitCount[1]
                       ELSE query.ret
        warning == IF overridden /\ ~options.silent
                   THEN OverrideWarning(options.overrideCommitCount[1])
                   ELSE <<>>
        dateVersion == DateVersion(d)
        actualType == IF IsBlank(releaseType) THEN Release ELSE releaseType
        ver == IF actualType = Release
               THEN dateVersion \o <<".">> \o NumberToString(buildNumber)
               ELSE dateVersion \o <<"-">> \o releaseType \o <<".">>
                        \o NumberToString(buildNumber)
    IN  IF failed
        THEN [ret |-> Null, commitCount |-> NoNumber, queries |-> <<todayStr>>,
              stderr |-> IF options.silent THEN <<>> ELSE ErrorGeneratingVersionInfo,
              threw |-> FALSE]
        ELSE [ret |-> [t |-> "VersionInfo", version |-> ver,
                       dateVersion |-> dateVersion, releaseType |-> actualType,
                       buildNumber |-> buildNumber],
              threw |-> FALSE,
              commitCount |-> Some(buildNumber),
              queries |-> IF overridden THEN <<>> ELSE <<todayStr>>,
              stderr |-> warning]

(***************************************************************************)
(* JSON.  A parsed value is a string, a number, a boolean, null, an array  *)
(* (items, and props: the named properties set on it) or an object         *)
(* (members: its own properties in insertion order).  The texts of the     *)
(* model hold no \u or \b escape, no fraction and no exponent.             *)
(***************************************************************************)
JsArray(items, props) == [t |-> "array", items |-> items, props |-> props]
JsObject(members) == [t |-> "object", members |-> members]
Member(k, v) == [key |-> k, value |-> v]

HasKey(members, k) == \E i \in 1..Len(members) : members[i].key = k
KeyIndex(members, k) == CHOOSE i \in 1..Len(members) : members[i].key = k

\* members with members[k] = v: an existing property keeps its place
PutMember(members, k, v) ==
    IF HasKey(members, k)
    THEN [members EXCEPT ![KeyIndex(members, k)] = Member(k, v)]
    ELSE Append(members, Member(k, v))

\* an assignment that leaves the object as it was
SetPropertyIgnored(o, k, v) == Returned(o)

\* o[k] = v in strict mode: the value after the assignment, or an exception
SetProperty(o, k, v) ==
    CASE o.t = "object" -> Returned(JsObject(PutMember(o.members, k, v)))
      [] o.t = "array" -> Returned(JsArray(o.items, PutMember(o.props, k, v)))
      [] OTHER -> Threw

\* o[k]: the value, or an exception
GetProperty(o, k) ==
    CASE o.t = "object" ->
            Returned(IF HasKey(o.members, k)
                     THEN o.members[KeyIndex(o.members, k)].value ELSE Undefined)
      [] o.t = "array" ->
            Returned(IF HasKey(o.props, k)
                     THEN o.props[KeyIndex(o.props, k)].value ELSE Undefined)
      [] o.t \in {"null", "undefined"} -> Threw
      [] OTHER -> Returned(Undefined)

\* ToBoolean(v)
Truthy(v) ==
    CASE v.t \in {"undefined", "null", "NaN"} -> FALSE
      [] v.t = "string" -> v.s # <<>>
      [] v.t = "number" -> v.n # 0
      [] v.t = "boolean" -> v.b
      [] OTHER -> TRUE

\* QuoteJSONString
EscapeChar(c) ==
    CASE c = "\"" -> <<"\\", "\"">>
      [] c = "\\" -> <<"\\", "\\">>
      [] c = "\n" -> <<"\\", "n">>
      [] c = "\t" -> <<"\\", "t">>
      [] c = "\r" -> <<"\\", "r">>
      [] c = "\f" -> <<"\\", "f">>
      [] OTHER -> <<c>>

RECURSIVE EscapeChars(_)
EscapeChars(s) ==
    IF s = <<>> THEN <<>> ELSE EscapeChar(Head(s)) \o EscapeChars(Tail(s))

Quote(s) == <<"\"">> \o EscapeChars(s) \o <<"\"">>

RECURSIVE Spaces(_)
Spaces(n) == IF n = 0 THEN <<>> ELSE <<" ">> \o Spaces(n - 1)

\* JSON.stringify(value, null, gap): the text of a value at an indentation
RECURSIVE Serialize(_, _, _)
RECURSIVE SerializeItems(_, _, _)
RECURSIVE SerializeMembers(_, _, _)
Serialize(v, gap, indent) ==
    CASE v.t = "string" -> Quote(v.s)
      [] v.t = "number" -> NumberToString(v.n)
      [] v.t = "boolean" -> IF v.b THEN <<"t", "r", "u", "e">>
                            ELSE <<"f", "a", "l", "s", "e">>
      [] v.t = "array" ->
            IF v.items = <<>> THEN <<"[", "]">>
            ELSE <<"[">> \o LineBreak \o Spaces(indent + gap)
                    \o SerializeItems(v.items, gap, indent + gap)
                    \o LineBreak \o Spaces(indent) \o <<"]">>
      [] v.t = "object" ->
            IF v.members = <<>> THEN <<"{", "}">>
            ELSE <<"{">> \o LineBreak \o Spaces(indent + gap)
                    \o SerializeMembers(v.members, gap, indent + gap)
                    \o LineBreak \o Spaces(indent) \o <<"}">>
      [] OTHER -> <<"n", "u", "l", "l">>

SerializeItems(items, gap, indent) ==
    Serialize(Head(items), gap, indent)
        \o IF Len(items) = 1 THEN <<>>
           ELSE <<",">> \o LineBreak \o Spaces(indent)
                    \o SerializeItems(Tail(items), gap, indent)

SerializeMembers(members, gap, indent) ==
    Quote(Head(members).key) \o <<":", " ">>
        \o Serialize(Head(members).value, gap, indent)
        \o IF Len(members) = 1 THEN <<>>
           ELSE <<",">> \o LineBreak \o Spaces(indent)
                    \o SerializeMembers(Tail(members), gap, indent)

JSONStringify(value, gap) == Serialize(value, gap, 0)

\* JSON.parse.  Every parser takes the text and a position and gives
\* [ok, v, i]: whether it read a value, the value, the position after it.
SyntaxError == [ok |-> FALSE]
Read(v, i) == [ok |-> TRUE, v |-> v, i |-> i]

JSONWhiteSpace == {" ", "\t", "\n", "\r"}
ControlChars == {"\n", "\t", "\r", "\f"}

RECURSIVE SkipWhiteSpace(_, _)
SkipWhiteSpace(text, i) ==
    IF i <= Len(text) /\ text[i] \in JSONWhiteSpace
    THEN SkipWhiteSpace(text, i + 1) ELSE i

At(text, i, c) == i <= Len(text) /\ text[i] = c

Unescape(e) ==
    CASE e = "n" -> "\n"
      [] e = "t" -> "\t"
      [] e = "r" -> "\r"
      [] e = "f" -> "\f"
      [] OTHER -> e

\* the characters of a string literal after its opening quote
RECURSIVE ParseChars(_, _, _)
ParseChars(text, i, acc) ==
    IF i > Len(text) THEN SyntaxError
    ELSE IF text[i] = "\"" THEN Read(JsString(acc), i + 1)
    ELSE IF text[i] = "\\"
         THEN IF i + 1 <= Len(text)
                   /\ text[i + 1] \in {"\"", "\\", "/", "n", "t", "r", "f"}
              THEN ParseChars(text, i + 2, Append(acc, Unescape(text[i + 1])))
              ELSE SyntaxError
    ELSE IF text[i] \in ControlChars THEN SyntaxError
    ELSE ParseChars(text, i + 1, Append(acc, text[i]))

ParseLiteral(text, i, word, v) ==
    IF i + Len(word) - 1 <= Len(text) /\ SubSeq(text, i, i + Len(word) - 1) = word
    THEN Read(v, i + Len(word)) ELSE SyntaxError

\* an integer: -? (0 | [1-9][0-9]*)
ParseNumber(text, i) ==
    LET negative == At(text, i, "-")
        j == IF negative THEN i + 1 ELSE i
        rest == SubSeq(text, j, Len(text))
        digits == ParseDigits(rest, 10, 0, FALSE)
        RECURSIVE CountDigits(_)
        CountDigits(s) ==
            IF s # <<>> /\ DigitValue(Head(s), 10) >= 0
            THEN 1 + CountDigits(Tail(s)) ELSE 0
        n == CountDigits(rest)
    IN  IF n = 0 \/ (n > 1 /\ rest[1] = "0") THEN SyntaxError
        ELSE Read(JsNumber(IF negative THEN 0 - digits.n ELSE digits.n), j + n)

RECURSIVE ParseValue(_, _)
RECURSIVE ParseItems(_, _, _)
RECURSIVE ParseMembers(_, _, _)
ParseValue(text, i) ==
    IF i > Len(text) THEN SyntaxError
    ELSE CASE text[i] = "\"" -> ParseChars(text, i + 1, <<>>)
           [] text[i] = "{" ->
                LET j == SkipWhiteSpace(text, i + 1)
                IN  IF At(text, j, "}") THEN Read(JsObject(<<>>), j + 1)
                    ELSE ParseMembers(text, j, <<>>)
           [] text[i] = "[" ->
                LET j == SkipWhiteSpace(text, i + 1)
                IN  IF At(text, j, "]") THEN Read(JsArray(<<>>, <<>>), j + 1)
                    ELSE ParseItems(text, j, <<>>)
           [] text[i] = "n" -> ParseLiteral(text, i, <<"n", "u", "l", "l">>, Null)
           [] text[i] = "t" ->
                ParseLiteral(text, i, <<"t", "r", "u", "e">>, JsBoolean(TRUE))
           [] text[i] = "f" ->
                ParseLiteral(text, i, <<"f", "a", "l", "s", "e">>, JsBoolean(FALSE))
           [] OTHER -> ParseNumber(text, i)

\* the items of an array from the first one on; i is at an item
ParseItems(text, i, acc) ==
    LET item == ParseValue(text, i)
        j == SkipWhiteSpace(text, item.i)
    IN  IF ~item.ok THEN SyntaxError
        ELSE IF At(text, j, ",")
             THEN ParseItems(text, SkipWhiteSpace(text, j + 1), Append(acc, item.v))
        ELSE IF At(text, j, "]") THEN Read(JsArray(Append(acc, item.v), <<>>), j + 1)
        ELSE SyntaxError

\* the members of an object from the first one on; i is at a key
ParseMembers(text, i, acc) ==
    LET key == IF At(text, i, "\"") THEN ParseChars(text, i + 1, <<>>)
               ELSE SyntaxError
        colon == SkipWhiteSpace(text, key.i)
        value == IF At(text, colon, ":")
                 THEN ParseValue(text, SkipWhiteSpace(text, colon + 1))
                 ELSE SyntaxError
        j == SkipWhiteSpace(text, value.i)
    IN  IF ~key.ok THEN SyntaxError
        ELSE IF ~value.ok THEN SyntaxError
        ELSE IF At(text, j, ",")
             THEN ParseMembers(text, SkipWhiteSpace(text, j + 1),
                               PutMember(acc, key.v.s, value.v))
        ELSE IF At(text, j, "}")
             THEN Read(JsObject(PutMember(acc, key.v.s, value.v)), j + 1)
        ELSE SyntaxError

\* JSON.parse(text): the value, or an exception
JSONParse(text) ==
    LET value == ParseValue(text, SkipWhiteSpace(text, 1))
    IN  IF value.ok /\ SkipWhiteSpace(text, value.i) = Len(text) + 1
        THEN Returned(value.v) ELSE Threw

(***************************************************************************)
(* Files.  A file is missing, or holds a text; a file that is not writable *)
(* makes fs.writeFileSync throw.                                           *)
(***************************************************************************)
Missing == [exists |-> FALSE, writable |-> TRUE, text |-> <<>>]
File(text) == [exists |-> TRUE, writable |-> TRUE, text |-> text]
ReadOnly(text) == [exists |-> TRUE, writable |-> FALSE, text |-> text]

\* a read that takes a missing file for an empty object
ReadFileSyncDefault(file) ==
    IF file.exists THEN Returned(file.text) ELSE Returned(<<"{", "}">>)

\* fs.readFileSync(path, 'utf-8')
ReadFileSync(file) == IF file.exists THEN Returned(file.text) ELSE Threw

\* fs.writeFileSync(path, text): the file afterwards, or an exception
WriteFileSync(file, text) ==
    IF file.exists /\ ~file.writable THEN Threw ELSE Returned(File(text))

VersionKey == <<"v", "e", "r", "s", "i", "o", "n">>

\* getProjectVersion(options) on the manifest file
getProjectVersion(options, file) ==
    LET read == ReadFileSync(file)
        parsed == JSONParse(read.ret)
        field == GetProperty(parsed.ret, VersionKey)
        body == IF read.threw \/ parsed.threw \/ field.threw THEN Threw
                ELSE Returned(IF Truthy(field.ret) THEN field.ret ELSE Null)
    IN  TryCatch(body, Null)

\* updatePackageVersion that reports success and writes nothing
updatePackageVersionUnwritten(newVersion, options, file) ==
    LET read == ReadFileSync(file)
        parsed == JSONParse(read.ret)
        assigned == SetProperty(parsed.ret, VersionKey, JsString(newVersion))
        body == IF read.threw \/ parsed.threw \/ assigned.threw
                THEN Threw ELSE Returned(TRUE)
    IN  [ret |-> TryCatch(body, FALSE).ret, threw |-> FALSE, file |-> file,
         ops |-> <<ReadManifest>>]

\* updatePackageVersion that writes a manifest of the version alone
updatePackageVersionAlone(newVersion, options, file) ==
    LET read == ReadFileSync(file)
        parsed == JSONParse(read.ret)
        written == WriteFileSync(file,
                      JSONStringify(JsObject(<<Member(VersionKey, JsString(newVersion))>>), 2))
        body == IF read.threw \/ parsed.threw \/ written.threw
                THEN Threw ELSE Returned(TRUE)
    IN  [ret |-> TryCatch(body, FALSE).ret,
         threw |-> FALSE,
         file |-> IF body.threw THEN file ELSE written.ret,
         ops |-> IF read.threw \/ parsed.threw THEN <<ReadManifest>>
                 ELSE <<ReadManifest, WriteManifest>>]

\* updatePackageVersion(newVersion, options) on the manifest file: the value
\* returned, the file afterwards and the file operations made
updatePackageVersion(newVersion, options, file) ==
    LET read == ReadFileSync(file)
        parsed == JSONParse(read.ret)
        assigned == SetProperty(parsed.ret, VersionKey, JsString(newVersion))
        written == WriteFileSync(file, JSONStringify(assigned.ret, 2))
        body == IF read.threw \/ parsed.threw \/ assigned.threw \/ written.threw
                THEN Threw ELSE Returned(TRUE)
    IN  [ret |-> TryCatch(body, FALSE).ret,
         threw |-> TryCatch(body, FALSE).threw,
         file |-> IF body.threw THEN file ELSE written.ret,
         ops |-> IF read.threw \/ parsed.threw \/ assigned.threw
                 THEN <<ReadManifest>> ELSE <<ReadManifest, WriteManifest>>]

\* generateAndUpdateVersion that returns the version whatever became of the
\* update
ReturnVersionAlways(gen, called, upd) ==
    [ret |-> gen.ret, file |-> upd.file, version |-> gen.ret, called |-> called,
     updated |-> called /\ upd.ret, threw |-> gen.threw \/ upd.threw,
     queries |-> gen.queries, ops |-> QueryOps(gen.queries) \o upd.ops,
     stderr |-> gen.stderr]

\* lines 212-215 of generateAndUpdateVersion: what it returns for the
\* outcome gen of generateVersion and the outcome upd of updatePackageVersion
\* (called: whether line 212 came to call it)
ReturnVersionOrNull(gen, called, upd) ==
    [ret |-> IF called /\ upd.ret THEN gen.ret ELSE Null,
     file |-> upd.file,
     version |-> gen.ret,
     called |-> called,
     updated |-> called /\ upd.ret,
     threw |-> gen.threw \/ upd.threw,
     queries |-> gen.queries,
     ops |-> QueryOps(gen.queries) \o upd.ops,
     stderr |-> gen.stderr]

\* generateAndUpdateVersion(releaseType, options) at clock reading d with
\* source control g on the manifest file: the value returned, the manifest
\* afterwards, the version generated, whether the update was called and
\* succeeded, the operations made and the text on standard error
generateAndUpdateVersion(releaseType, options, d, g, file) ==
    LET gen == generateVersion(releaseType, options, d, g)
    IN  ReturnVersionOrNull(gen, Truthy(gen.ret),
            IF Truthy(gen.ret)
            THEN updatePackageVersion(gen.ret.s, options, file)
            ELSE [ret |-> FALSE, threw |-> FALSE, file |-> file, ops |-> <<>>])

(***************************************************************************)
(* The build-metadata artifact src/version.ts.  BUILD_VERSION is its       *)
(* constant; helper names the text of its getVersionDisplayString: the one *)
(* of the file in the repository or the one createVersionFile writes.      *)
(***************************************************************************)
\* String.prototype.split(sep)[0] for a one-character separator
RECURSIVE SplitFirst(_, _)
SplitFirst(s, sep) ==
    IF s = <<>> \/ Head(s) = sep THEN <<>>
    ELSE <<Head(s)>> \o SplitFirst(Tail(s), sep)

\* src/src/version.ts: (`v${BUILD_VERSION}`.split('-')[0]) ?? ''
getVersionDisplayString(BUILD_VERSION) == SplitFirst(<<"v">> \o BUILD_VERSION, "-")

\* the helper createVersionFile writes: BUILD_VERSION.split('-')[0]
TemplateGetVersionDisplayString(BUILD_VERSION) == SplitFirst(BUILD_VERSION, "-")

Artifact(v, helper) ==
    [exists |-> TRUE, writable |-> TRUE, BUILD_VERSION |-> v, helper |-> helper]
ReadOnlyArtifact(v, helper) ==
    [exists |-> TRUE, writable |-> FALSE, BUILD_VERSION |-> v, helper |-> helper]
NoArtifact == [exists |-> FALSE, writable |-> TRUE, BUILD_VERSION |-> <<>>, helper |-> "none"]

\* the two BUILD_VERSION constants of src/src/version.ts
CheckedInVersions ==
    { <<"2", "5", ".", "1", "0", ".", "0", "1", "-", "d", "e", "v", ".", "1">>,
      <<"2", "5", ".", "1", "2", ".", "2", "6", "-", "d", "e", "v", ".", "0">> }

\* createVersionFile without its try/catch
createVersionFileUncaught(ver, options, file) ==
    LET body == IF file.exists /\ ~file.writable THEN Threw ELSE Returned(TRUE)
    IN  [ret |-> IF body.threw THEN Undefined ELSE TRUE,
         threw |-> body.threw,
         file |-> IF body.threw THEN file ELSE Artifact(ver, "createVersionFile"),
         ops |-> <<WriteArtifact>>]

\* createVersionFile(version, options): the value returned, the artifact
\* afterwards and the file operations made
createVersionFile(ver, options, file) ==
    LET body == IF file.exists /\ ~file.writable THEN Threw ELSE Returned(TRUE)
    IN  [ret |-> TryCatch(body, FALSE).ret,
         threw |-> TryCatch(body, FALSE).threw,
         file |-> IF body.threw THEN file ELSE Artifact(ver, "createVersionFile"),
         ops |-> <<WriteArtifact>>]

\* the display helper of an artifact
DisplayString(file) ==
    IF file.helper = "createVersionFile"
    THEN TemplateGetVersionDisplayString(file.BUILD_VERSION)
    ELSE getVersionDisplayString(file.BUILD_VERSION)

(***************************************************************************)
(* Inputs.                                                                 *)
(***************************************************************************)
ManifestCompact ==
    <<"{", "\"", "n", "a", "m", "e", "\"", ":", "\"", "x", "\"", ",", "\"",
      "v", "e", "r", "s", "i", "o", "n", "\"", ":", "\"", "0", ".", "0", ".",
      "1", "\"", "}">>
ManifestNoVersion ==
    <<"{", "\"", "n", "a", "m", "e", "\"", ":", "\"", "x", "\"", "}">>
ManifestNested ==
    <<"{", "\n", " ", " ", "\"", "v", "e", "r", "s", "i", "o", "n", "\"",
      ":", " ", "\"", "1", "\"", ",", "\n", " ", " ", "\"", "s", "c", "r",
      "i", "p", "t", "s", "\"", ":", " ", "{", "\"", "b", "\"", ":", " ",
      "[", "1", ",", " ", "n", "u", "l", "l", "]", "}", ",", "\n", " ", " ",
      "\"", "p", "r", "i", "v", "a", "t", "e", "\"", ":", " ", "t", "r", "u",
      "e", "\n", "}", "\n">>
ManifestTruncated ==
    <<"{", "\"", "n", "a", "m", "e", "\"">>
ManifestArray ==
    <<"[", "]">>
ManifestNull ==
    <<"n", "u", "l", "l">>
ManifestString ==
    <<"\"", "x", "\"">>

Manifests ==
    { Missing, File(ManifestCompact), File(ManifestNoVersion), File(ManifestNested),
      File(ManifestTruncated), File(ManifestArray), File(ManifestNull),
      File(ManifestString), File(<<>>), ReadOnly(ManifestCompact) }

VersionScenario == <<"2", "5", ".", "0", "1", ".", "0", "1", ".", "1">>
VersionDev == <<"2", "5", ".", "1", "2", ".", "2", "6", "-", "d", "e", "v", ".", "3">>
VersionQuoted == <<"a", "\"", "b", "\\", "c">>
VersionTwoLines == <<"x", "\n", "y">>

VersionRelease == <<"2", "5", ".", "1", "2", ".", "2", "6", ".", "3">>

VersionStrings ==
    { <<>>, VersionScenario, VersionDev, VersionRelease, VersionQuoted,
      VersionTwoLines }

\* versions a TypeScript string literal in quotes holds as they are
LiteralVersions == { VersionScenario, VersionDev, VersionRelease }

ReleaseTypes == { <<>>, <<"d", "e", "v">>, <<"\t", " ">>, Release }

(***************************************************************************)
(* The initial state.                                                      *)
(***************************************************************************)
NoCall == [fn |-> "none"]

EnvInit ==
    /\ now \in Dates
    /\ git \in { [mode |-> m, commits |-> [day \in GitDays |-> 0], output |-> out] :
                    m \in GitModes \ {"unparsableOutput"}, out \in {<<>>} }
               \cup
               { [mode |-> "unparsableOutput", commits |-> [day \in GitDays |-> 0],
                  output |-> out] : out \in UnparsableOutputs }

LibInit ==
    /\ running = <<>>
    /\ call = NoCall
    /\ memo = NoCall
    /\ ncalls = 0

CliInit ==
    /\ argv = <<>>
    /\ pc = "idle"
    /\ arg = <<>>
    /\ commitCountArg = Undefined
    /\ overrideCommitCount = NoNumber
    /\ version = Undefined
    /\ pkg0 = pkg
    /\ exitCode = NoNumber

IoInit ==
    /\ stdout = <<>>
    /\ stderr = <<>>
    /\ ops = <<>>

CheckedInArtifacts == { Artifact(v, "src/version.ts") : v \in CheckedInVersions }
CheckedInArtifact ==
    Artifact(CHOOSE v \in CheckedInVersions : SubSeq(v, 4, 5) = <<"1", "0">>,
             "src/version.ts")

\* a project with a manifest and the artifact of the repository
Init ==
    /\ EnvInit
    /\ pkg = File(ManifestCompact)
    /\ artifact = CheckedInArtifact
    /\ LibInit
    /\ CliInit
    /\ IoInit

(***************************************************************************)
(* The environment: time passes, commits are made.  call describes the     *)
(* call that has just returned: a step of the environment clears it.       *)
(***************************************************************************)
Tick ==
    /\ \E d \in Dates : Earlier(now, d) /\ now' = d
    /\ call' = NoCall
    /\ UNCHANGED <<git, running, fileVars, memo, ncalls, cliVars, ioVars>>

Commit ==
    /\ git.mode = "ok"
    /\ git.commits[GitDay(now)] < MaxCommits
    /\ git' = [git EXCEPT !.commits[GitDay(now)] = @ + 1]
    /\ call' = NoCall
    /\ UNCHANGED <<now, running, fileVars, memo, ncalls, cliVars, ioVars>>

(***************************************************************************)
(* Library calls.  A call is one step: the library is synchronous.         *)
(***************************************************************************)
DefaultOptions == [silent |-> FALSE, overrideCommitCount |-> NoNumber]

GenerateVersionCall(releaseType, options) ==
    LET r == generateVersion(releaseType, options, now, git)
    IN  [fn |-> "generateVersion", releaseType |-> releaseType,
         options |-> options, date |-> now, git |-> git, ret |-> r.ret,
         threw |-> r.threw, commitCount |-> r.commitCount,
         queries |-> r.queries, stderr |-> r.stderr, seq |-> ncalls + 1]

\* a generateVersion that saves the version it returns in the manifest
CallGenerateVersionSaving ==
    /\ ncalls < MaxCalls
    /\ \E releaseType \in ReleaseTypes \cup { <<"0">>, <<"4", "2">> },
          options \in Options :
          /\ call' = GenerateVersionCall(releaseType, options)
          /\ stderr' = call'.stderr
          /\ ops' = QueryOps(call'.queries)
    /\ pkg' = IF Truthy(call'.ret)
              THEN updatePackageVersion(call'.ret.s, DefaultOptions, pkg).file
              ELSE pkg
    /\ ncalls' = ncalls + 1
    /\ stdout' = <<>>
    /\ UNCHANGED <<envVars, artifact, memo, cliVars>>

CallGenerateVersion ==
    /\ ncalls < MaxCalls
    /\ \E releaseType \in ReleaseTypes \cup { <<"0">>, <<"4", "2">> },
          options \in Options :
          /\ call' = GenerateVersionCall(releaseType, options)
          /\ stderr' = call'.stderr
          /\ ops' = QueryOps(call'.queries)
    /\ ncalls' = ncalls + 1
    /\ stdout' = <<>>
    /\ UNCHANGED <<envVars, fileVars, memo, cliVars>>

CallGetVersionInfo ==
    /\ ncalls < MaxCalls
    /\ \E releaseType \in ReleaseTypes, options \in Options :
          LET r == getVersionInfo(releaseType, options, now, git)
          IN  /\ call' = [fn |-> "getVersionInfo", releaseType |-> releaseType,
                          options |-> options, date |-> now, git |-> git,
                          ret |-> r.ret, threw |-> r.threw,
                          commitCount |-> r.commitCount,
                          queries |-> r.queries, stderr |-> r.stderr,
                          seq |-> ncalls + 1]
              /\ stderr' = r.stderr
              /\ ops' = QueryOps(r.queries)
    /\ ncalls' = ncalls + 1
    /\ stdout' = <<>>
    /\ UNCHANGED <<envVars, fileVars, memo, cliVars>>

CallGetGitCommitCount ==
    /\ ncalls < MaxCalls
    /\ \E todayStr \in GitDays :
          LET r == getGitCommitCount(todayStr, DefaultOptions, git)
          IN  call' = [fn |-> "getGitCommitCount", todayStr |-> todayStr,
                       git |-> git, threw |-> r.threw,
                       ret |-> IF r.threw THEN Undefined ELSE JsNumber(r.ret),
                       seq |-> ncalls + 1]
    /\ ncalls' = ncalls + 1
    /\ stdout' = <<>>
    /\ stderr' = <<>>
    /\ ops' = <<GitRevList>>
    /\ UNCHANGED <<envVars, fileVars, memo, cliVars>>

Next ==
    \/ Tick
    \/ Commit
    \/ CallGenerateVersion
    \/ CallGetVersionInfo
    \/ CallGetGitCommitCount

Spec == Init /\ [][Next]_vars

(***************************************************************************)
(* Repeated generation: the process remembers one generateVersion call in  *)
(* memo, and later calls are compared with it.                             *)
(***************************************************************************)
Remembered(c) ==
    [fn |-> c.fn, releaseType |-> c.releaseType, date |-> c.date,
     commitCount |-> c.commitCount, ret |-> c.ret, seq |-> c.seq]

RepeatGenerateVersion ==
    /\ ncalls < MaxCalls
    /\ \E releaseType \in ReleaseTypes, options \in Options :
          /\ call' = GenerateVersionCall(releaseType, options)
          /\ memo' \in IF memo = NoCall THEN {NoCall, Remembered(call')} ELSE {memo}
          /\ stderr' = call'.stderr
          /\ ops' = QueryOps(call'.queries)
    /\ ncalls' = ncalls + 1
    /\ stdout' = <<>>
    /\ UNCHANGED <<envVars, fileVars, cliVars>>

\* getVersionInfo(releaseType) of the same process, with the default options
RepeatGetVersionInfo ==
    /\ ncalls < MaxCalls
    /\ \E releaseType \in ReleaseTypes :
          LET r == getVersionInfo(releaseType, DefaultOptions, now, git)
          IN  /\ call' = [fn |-> "getVersionInfo", releaseType |-> releaseType,
                          options |-> DefaultOptions, date |-> now, git |-> git,
                          ret |-> r.ret, threw |-> r.threw,
                          commitCount |-> r.commitCount,
                          queries |-> r.queries, stderr |-> r.stderr,
                          seq |-> ncalls + 1]
              /\ stderr' = r.stderr
              /\ ops' = QueryOps(r.queries)
    /\ ncalls' = ncalls + 1
    /\ stdout' = <<>>
    /\ UNCHANGED <<envVars, fileVars, memo, cliVars>>

NextRepeat ==
    \/ Tick
    \/ Commit
    \/ RepeatGenerateVersion
    \/ RepeatGetVersionInfo

SpecRepeat == Init /\ [][NextRepeat]_vars

(***************************************************************************)
(* The file operations of the library, on a project whose manifest is any  *)
(* of Manifests.                                                           *)
(***************************************************************************)
Today == CHOOSE d \in Dates : d.fullYear = 2025

InitFiles ==
    /\ now = Today
    /\ git = [mode |-> "ok", commits |-> [day \in GitDays |-> 0], output |-> <<>>]
    /\ pkg \in Manifests
    /\ artifact \in CheckedInArtifacts \cup {NoArtifact}
    /\ LibInit
    /\ CliInit
    /\ IoInit

\* what a later call keeps of the call before it
Prior(c) ==
    IF c.fn = "updatePackageVersion"
    THEN [fn |-> c.fn, newVersion |-> c.newVersion, before |-> c.before, ret |-> c.ret]
    ELSE NoCall

CallUpdatePackageVersion ==
    /\ ncalls < MaxCalls
    /\ \E newVersion \in VersionStrings :
          LET r == updatePackageVersion(newVersion, DefaultOptions, pkg)
          IN  /\ pkg' = r.file
              /\ call' = [fn |-> "updatePackageVersion", newVersion |-> newVersion,
                          before |-> pkg, ret |-> r.ret, threw |-> r.threw,
                          seq |-> ncalls + 1]
              /\ ops' = r.ops
    /\ ncalls' = ncalls + 1
    /\ stdout' = <<>>
    /\ stderr' = <<>>
    /\ UNCHANGED <<envVars, artifact, memo, cliVars>>

CallGetProjectVersion ==
    /\ ncalls < MaxCalls
    /\ call' = [fn |-> "getProjectVersion", after |-> Prior(call),
                before |-> pkg,
                ret |-> getProjectVersion(DefaultOptions, pkg).ret,
                threw |-> getProjectVersion(DefaultOptions, pkg).threw,
                seq |-> ncalls + 1]
    /\ ncalls' = ncalls + 1
    /\ stdout' = <<>>
    /\ stderr' = <<>>
    /\ ops' = <<ReadManifest>>
    /\ UNCHANGED <<envVars, fileVars, memo, cliVars>>

CallCreateVersionFile ==
    /\ ncalls < MaxCalls
    /\ \E ver \in LiteralVersions :
          LET r == createVersionFile(ver, DefaultOptions, artifact)
          IN  /\ artifact' = r.file
              /\ call' = [fn |-> "createVersionFile", version |-> ver,
                          before |-> artifact, ret |-> r.ret,
                          threw |-> r.threw, seq |-> ncalls + 1]
              /\ ops' = r.ops
    /\ ncalls' = ncalls + 1
    /\ stdout' = <<>>
    /\ stderr' = <<>>
    /\ UNCHANGED <<envVars, pkg, memo, cliVars>>

\* a program of the project imports the artifact and calls its helper
CallGetVersionDisplayString ==
    /\ ncalls < MaxCalls
    /\ artifact.exists
    /\ call' = [fn |-> "getVersionDisplayString",
                BUILD_VERSION |-> artifact.BUILD_VERSION,
                helper |-> artifact.helper,
                ret |-> JsString(DisplayString(artifact)), seq |-> ncalls + 1]
    /\ ncalls' = ncalls + 1
    /\ stdout' = <<>>
    /\ stderr' = <<>>
    /\ ops' = <<>>
    /\ UNCHANGED <<envVars, fileVars, memo, cliVars>>

NextFiles ==
    \/ CallUpdatePackageVersion
    \/ CallGetProjectVersion
    \/ CallCreateVersionFile
    \/ CallGetVersionDisplayString

SpecFiles == InitFiles /\ [][NextFiles]_vars

(***************************************************************************)
(* The whole library on one project: every exported function, with source  *)
(* control that works or fails and a manifest and an artifact that are     *)
(* there, missing or not writable.                                         *)
(***************************************************************************)
LibraryArtifacts ==
    { NoArtifact, CheckedInArtifact,
      ReadOnlyArtifact(CheckedInArtifact.BUILD_VERSION, "src/version.ts") }

InitLibrary ==
    /\ now = Today
    /\ git \in { [mode |-> m, commits |-> [day \in GitDays |-> n], output |-> <<>>] :
                    m \in {"ok", "notInstalled", "notRepository"}, n \in {0, 2} }
    /\ pkg \in { Missing, File(ManifestCompact), File(ManifestTruncated),
                 File(ManifestArray), ReadOnly(ManifestCompact) }
    /\ artifact \in LibraryArtifacts
    /\ LibInit
    /\ CliInit
    /\ IoInit

GenerateAndUpdateVersionCall(releaseType, options, r) ==
    [fn |-> "generateAndUpdateVersion", releaseType |-> releaseType,
     options |-> options, date |-> now, git |-> git, before |-> pkg,
     after |-> r.file, version |-> r.version, called |-> r.called,
     updated |-> r.updated, queries |-> r.queries, ops |-> r.ops,
     stderr |-> r.stderr, ret |-> r.ret, threw |-> r.threw,
     seq |-> ncalls + 1]

CallGenerateAndUpdateVersion ==
    /\ ncalls < MaxCalls
    /\ \E releaseType \in ReleaseTypes, options \in Options :
          call' = GenerateAndUpdateVersionCall(releaseType, options,
                    generateAndUpdateVersion(releaseType, options, now, git, pkg))
    /\ pkg' = call'.after
    /\ stderr' = call'.stderr
    /\ ops' = call'.ops
    /\ ncalls' = ncalls + 1
    /\ stdout' = <<>>
    /\ UNCHANGED <<envVars, artifact, memo, cliVars>>

\* one more call of the process
LibraryCall(Call) == ncalls < MaxLibraryCalls /\ Call

NextLibrary ==
    \/ LibraryCall(CallGenerateVersion)
    \/ LibraryCall(CallGetVersionInfo)
    \/ LibraryCall(CallGetGitCommitCount)
    \/ LibraryCall(CallGetProjectVersion)
    \/ LibraryCall(CallUpdatePackageVersion)
    \/ LibraryCall(CallGenerateAndUpdateVersion)
    \/ LibraryCall(CallCreateVersionFile)

SpecLibrary == InitLibrary /\ [][NextLibrary]_vars

(***************************************************************************)
(* src/version-cli.ts                                                      *)
(***************************************************************************)
\* the ANSI color codes of the terminal output
c ==
    [r |-> "\\x1b[0m", b |-> "\\x1b[1m", red |-> "\\x1b[31m", grn |-> "\\x1b[32m",
     yel |-> "\\x1b[33m", cyn |-> "\\x1b[36m", mag |-> "\\x1b[35m"]

Colorize(text, color) == <<color>> \o text \o <<c.r>>

\* what console.log and console.error write for one argument
ConsoleLog(text) == text \o LineBreak

\* showHelp(): the text written to standard output
ShowHelp ==
    ConsoleLog(Colorize(<<"NPM-VersionLib CLI">>, c.b) \o <<"\n">>)
        \o ConsoleLog(Colorize(<<"Usage:">>, c.yel))
        \o ConsoleLog(<<"  npm-version [type] [commit-count]">>)
        \o ConsoleLog(<<"  npm-version [commit-count]         # Shortcut for release", "\n">>)
        \o ConsoleLog(Colorize(<<"Arguments:">>, c.yel))
        \o ConsoleLog(<<"  type          Version type (blank/empty = release)">>)
        \o ConsoleLog(<<"  commit-count  Optional: Override git commit count (shows warning)">>)
        \o ConsoleLog(<<"                If only a number is provided, treated as release", "\n">>)
        \o ConsoleLog(Colorize(<<"Version Types:">>, c.yel))
        \o ConsoleLog(<<"  (blank)  -> 25.12.26.1     # Release (clean format)">>)
        \o ConsoleLog(<<"  dev      -> 25.12.26-dev.1">>)
        \o ConsoleLog(<<"  beta     -> 25.12.26-beta.1">>)
        \o ConsoleLog(<<"  custom   -> 25.12.26-custom.1", "\n">>)
        \o ConsoleLog(Colorize(<<"Examples:">>, c.yel))
        \o ConsoleLog(<<"  npm-version              # Release version (25.12.26.1)">>)
        \o ConsoleLog(<<"  npm-version dev          # Dev version">>)
        \o ConsoleLog(<<"  npm-version beta         # Beta version">>)
        \o ConsoleLog(<<"  npm-version dev 5        # Dev version with commit count = 5 (warning)">>)
        \o ConsoleLog(<<"  npm-version 42           # Release version with commit count = 42 (warning)", "\n">>)
        \o ConsoleLog(Colorize(<<"More:">>, c.cyn) \o <<" https://www.npmjs.com/package/npm-version-lib", "\n">>)

InvalidTypeError ==
    ConsoleLog(Colorize(<<"Error: Invalid version type">>, c.red))
        \o ConsoleLog(<<"Version type cannot contain spaces", "\n">>)

CommitCountError ==
    ConsoleLog(Colorize(<<"Error: Commit count must be a non-negative integer">>, c.red))

GenerationFailedError ==
    ConsoleLog(Colorize(<<"Error:">>, c.red) \o <<" ", "Version generation failed">>)

\* the command lines of the model: process.argv from index 2 on
FirstArguments ==
    { <<>>, <<"d", "e", "v">>, <<"a", " ", "b">>, <<"a", " ", "-", "h">>,
      <<"-", "h">>, <<"-", "-", "h", "e", "l", "p">>, <<"4", "2">>, <<"0">>,
      <<"0", "0", "7">>, <<"-", "5">>, <<"a", "\n", "b">>, <<"\t", "5">>,
      <<"a", "-", "h">> }

SecondArguments ==
    { <<>>, <<"5">>, <<"0">>, <<"-", "5">>, <<"5", "x">>, <<"a", "b", "c">> }

CommandLines ==
    {<<>>} \cup { <<a>> : a \in FirstArguments }
        \cup { <<a, b>> : a \in FirstArguments, b \in SecondArguments }

CliManifests ==
    { Missing, File(ManifestCompact), File(ManifestTruncated),
      ReadOnly(ManifestCompact) }

InitCli ==
    /\ EnvInit
    /\ pkg \in CliManifests
    /\ artifact = CheckedInArtifact
    /\ LibInit
    /\ CliInit
    /\ IoInit

\* process.argv[i], for i = 2 and 3
ProcessArgv(i) == IF Len(argv) >= i - 1 THEN JsString(argv[i - 1]) ELSE Undefined

\* process.exit(code), and the end of main() for code 0
Exit(code) ==
    /\ pc' = "exited"
    /\ exitCode' = Some(code)

\* the process starts: main() reads its arguments (lines 57-58)
CliStart ==
    /\ pc = "idle"
    /\ \E line \in CommandLines : argv' = line
    /\ arg' = IF Truthy(ProcessArgv(2)') THEN ProcessArgv(2)'.s ELSE <<>>
    /\ commitCountArg' = ProcessArgv(3)'
    /\ pkg0' = pkg
    /\ pc' = "help"
    /\ stdout' = <<>>
    /\ stderr' = <<>>
    /\ ops' = <<>>
    /\ UNCHANGED <<envVars, fileVars, libVars, overrideCommitCount, version, exitCode>>

\* lines 60-63
CliHelp ==
    /\ pc = "help"
    /\ IF Includes(arg, <<"-", "-", "h", "e", "l", "p">>) \/ Includes(arg, <<"-", "h">>)
       THEN /\ stdout' = stdout \o ShowHelp
            /\ Exit(0)
       ELSE /\ pc' = "space"
            /\ UNCHANGED <<stdout, exitCode>>
    /\ UNCHANGED <<envVars, fileVars, libVars, argv, arg, commitCountArg,
                   overrideCommitCount, version, pkg0, stderr, ops>>

\* lines 65-69
CliSpace ==
    /\ pc = "space"
    /\ IF Includes(arg, <<" ">>)
       THEN /\ stderr' = stderr \o InvalidTypeError
            /\ Exit(1)
       ELSE /\ pc' = "shortcut"
            /\ UNCHANGED <<stderr, exitCode>>
    /\ UNCHANGED <<envVars, fileVars, libVars, argv, arg, commitCountArg,
                   overrideCommitCount, version, pkg0, stdout, ops>>

\* lines 71-76: a first argument that is a number is the commit count
CliShortcut ==
    /\ pc = "shortcut"
    /\ LET firstArgAsNum == ParseInt(arg, 10)
       IN  IF ~IsNaN(firstArgAsNum) /\ firstArgAsNum.n >= 0
                /\ Trim(arg) = NumberToString(firstArgAsNum.n)
           THEN /\ commitCountArg' = JsString(arg)
                /\ arg' = <<>>
           ELSE UNCHANGED <<arg, commitCountArg>>
    /\ pc' = "count"
    /\ UNCHANGED <<envVars, fileVars, libVars, argv, overrideCommitCount, version,
                   pkg0, exitCode, ioVars>>

\* lines 78-87: the commit count override
CliCount ==
    /\ pc = "count"
    /\ IF Truthy(commitCountArg)
       THEN LET parsed == ParseInt(commitCountArg.s, 10)
            IN  IF IsNaN(parsed) \/ parsed.n < 0
                THEN /\ stderr' = stderr \o CommitCountError
                     /\ Exit(1)
                     /\ UNCHANGED overrideCommitCount
                ELSE /\ overrideCommitCount' = Some(parsed.n)
                     /\ pc' = "generate"
                     /\ UNCHANGED <<stderr, exitCode>>
       ELSE /\ pc' = "generate"
            /\ UNCHANGED <<overrideCommitCount, stderr, exitCode>>
    /\ UNCHANGED <<envVars, fileVars, libVars, argv, arg, commitCountArg, version,
                   pkg0, stdout, ops>>

\* lines 90-99: the version is generated
CliGenerate ==
    /\ pc = "generate"
    /\ LET displayType == IF arg # <<>> THEN arg ELSE Release
           options == [silent |-> FALSE, overrideCommitCount |-> overrideCommitCount]
           r == generateVersion(arg, options, now, git)
       IN  /\ stdout' = stdout
                \o ConsoleLog(Colorize(<<"Generating ">> \o displayType
                                          \o <<" version...">>, c.yel))
           /\ ops' = ops \o QueryOps(r.queries)
           /\ IF Truthy(r.ret)
              THEN /\ version' = r.ret
                   /\ stderr' = stderr \o r.stderr
                   /\ pc' = "update"
                   /\ UNCHANGED exitCode
              ELSE /\ stderr' = stderr \o r.stderr \o GenerationFailedError
                   /\ Exit(1)
                   /\ UNCHANGED version
    /\ UNCHANGED <<envVars, fileVars, libVars, argv, arg, commitCountArg,
                   overrideCommitCount, pkg0>>

\* line 101: the manifest is updated
CliUpdate ==
    /\ pc = "update"
    /\ LET r == updatePackageVersion(version.s, [silent |-> TRUE], pkg)
       IN  /\ pkg' = r.file
           /\ ops' = ops \o r.ops
    /\ pc' = "updateAgain"
    /\ UNCHANGED <<envVars, artifact, libVars, argv, arg, commitCountArg,
                   overrideCommitCount, version, pkg0, exitCode, stdout, stderr>>

\* a second test of the version that fails after the manifest was updated
CliUpdateAgainFailing ==
    /\ pc = "updateAgain"
    /\ stderr' = stderr \o GenerationFailedError
    /\ Exit(1)
    /\ UNCHANGED <<pkg, ops>>
    /\ UNCHANGED <<envVars, artifact, libVars, argv, arg, commitCountArg,
                   overrideCommitCount, version, pkg0, stdout>>

\* lines 103-105: the version is tested and the manifest updated once more
CliUpdateAgain ==
    /\ pc = "updateAgain"
    /\ IF Truthy(version)
       THEN /\ LET r == updatePackageVersion(version.s, [silent |-> TRUE], pkg)
               IN  /\ pkg' = r.file
                   /\ ops' = ops \o r.ops
            /\ pc' = "print"
            /\ UNCHANGED <<stderr, exitCode>>
       ELSE /\ stderr' = stderr \o GenerationFailedError
            /\ Exit(1)
            /\ UNCHANGED <<pkg, ops>>
    /\ UNCHANGED <<envVars, artifact, libVars, argv, arg, commitCountArg,
                   overrideCommitCount, version, pkg0, stdout>>

\* lines 107-108, and main() returns
CliPrint ==
    /\ pc = "print"
    /\ stdout' = stdout
          \o ConsoleLog(Colorize(<<"\\u2713 Version: ">> \o version.s, c.grn))
          \o version.s \o LineBreak
    /\ Exit(0)
    /\ UNCHANGED <<envVars, fileVars, libVars, argv, arg, commitCountArg,
                   overrideCommitCount, version, pkg0, stderr, ops>>

NextCli ==
    \/ Tick
    \/ Commit
    \/ CliStart
    \/ CliHelp
    \/ CliSpace
    \/ CliShortcut
    \/ CliCount
    \/ CliGenerate
    \/ CliUpdate
    \/ CliUpdateAgain
    \/ CliPrint

SpecCli == InitCli /\ [][NextCli]_vars

(***************************************************************************)
(* Calls followed statement by statement.  A call of generateVersion or    *)
(* getVersionInfo reads the clock, then asks git, then builds its result,  *)
(* and the clock and the repository move in between.  Two invocations that *)
(* update the same manifest take turns at their reads and writes of the    *)
(* file; each read and each write is one step.  running holds one frame    *)
(* for every such call: its position pc and its local variables.           *)
(***************************************************************************)
InitSteps ==
    /\ now \in Dates
    /\ git \in { [mode |-> m, commits |-> [day \in GitDays |-> 0], output |-> <<>>] :
                    m \in {"ok", "notRepository"} }
    /\ pkg \in { Missing, File(ManifestCompact), File(ManifestNoVersion),
                 File(ManifestNested), File(ManifestTruncated),
                 ReadOnly(ManifestCompact) }
    /\ artifact = NoArtifact
    /\ LibInit
    /\ CliInit
    /\ IoInit

\* const now = new Date() and the strings built from it; the frame keeps
\* the reading
StartGenerate ==
    /\ running = <<>>
    /\ \E fn \in {"generateVersion", "getVersionInfo"},
          releaseType \in ReleaseTypes, options \in Options :
          running' = << [fn |-> fn, pc |-> "query", releaseType |-> releaseType,
                         options |-> options, now |-> now,
                         todayStr |-> TodayStr(now), queried |-> <<>>,
                         commitCount |-> NoNumber, ret |-> Undefined] >>
    /\ UNCHANGED <<now, git, fileVars, libVars, cliVars, ioVars>>

\* the build number: the override, or getGitCommitCount(todayStr, options);
\* queried keeps the day the query was made for
StepQuery ==
    /\ running # <<>>
    /\ running[1].pc = "query"
    /\ LET f == running[1]
           overridden == IsOverridden(f.options)
           n == IF overridden THEN f.options.overrideCommitCount[1]
                ELSE getGitCommitCount(f.todayStr, f.options, git).ret
       IN  running' = << [f EXCEPT !.pc = "return",
                                   !.queried = IF overridden THEN <<>>
                                               ELSE <<f.todayStr>>,
                                   !.commitCount = Some(n)] >>
    /\ UNCHANGED <<now, git, fileVars, libVars, cliVars, ioVars>>

\* a return statement that formats a second reading of the clock
StepReturnRereading ==
    /\ running # <<>>
    /\ running[1].pc = "return"
    /\ LET f == running[1]
           given == [silent |-> TRUE, overrideCommitCount |-> f.commitCount]
       IN  running' = << [f EXCEPT !.pc = "done",
                                   !.ret = IF f.fn = "generateVersion"
                                           THEN generateVersion(f.releaseType, given,
                                                                now, git).ret
                                           ELSE getVersionInfo(f.releaseType, given,
                                                               now, git).ret] >>
    /\ UNCHANGED <<now, git, fileVars, libVars, cliVars, ioVars>>

\* the result, built from the reading of the frame and its build number:
\* what the function returns when the build number is given
StepReturn ==
    /\ running # <<>>
    /\ running[1].pc = "return"
    /\ LET f == running[1]
           given == [silent |-> TRUE, overrideCommitCount |-> f.commitCount]
       IN  running' = << [f EXCEPT !.pc = "done",
                                   !.ret = IF f.fn = "generateVersion"
                                           THEN generateVersion(f.releaseType, given,
                                                                f.now, git).ret
                                           ELSE getVersionInfo(f.releaseType, given,
                                                               f.now, git).ret] >>
    /\ UNCHANGED <<now, git, fileVars, libVars, cliVars, ioVars>>

\* Two invocations that update the manifest of one project.  calls is the
\* number of updatePackageVersion calls the invocation makes: one for a
\* call of the library function, two for main() of the command line tool.
\* wrote is 0, or the place of the frame's last write among all writes.
StartUpdates ==
    /\ running = <<>>
    /\ \E v1, v2 \in {VersionDev, VersionRelease}, k1, k2 \in {1, 2} :
          running' = << [fn |-> "updatePackageVersion", pc |-> "read",
                         newVersion |-> v1, calls |-> k1, packageJson |-> Undefined,
                         wrote |-> 0],
                        [fn |-> "updatePackageVersion", pc |-> "read",
                         newVersion |-> v2, calls |-> k2, packageJson |-> Undefined,
                         wrote |-> 0] >>
    /\ UNCHANGED <<now, git, fileVars, libVars, cliVars, ioVars>>

\* the frame after a call of updatePackageVersion returned
AfterUpdate(f) ==
    [f EXCEPT !.pc = IF f.calls = 1 THEN "done" ELSE "read",
              !.calls = f.calls - 1,
              !.packageJson = Undefined]

\* const packageJson = JSON.parse(fs.readFileSync(packagePath, 'utf-8'))
StepRead(p) ==
    /\ running[p].fn = "updatePackageVersion"
    /\ running[p].pc = "read"
    /\ LET f == running[p]
           read == ReadFileSync(pkg)
           parsed == JSONParse(read.ret)
       IN  running' = [running EXCEPT ![p] =
                          IF read.threw \/ parsed.threw THEN AfterUpdate(f)
                          ELSE [f EXCEPT !.pc = "write",
                                         !.packageJson = parsed.ret]]
    /\ UNCHANGED <<now, git, fileVars, libVars, cliVars, ioVars>>

\* packageJson.version = newVersion; fs.writeFileSync(packagePath, ...)
StepWrite(p) ==
    /\ running[p].fn = "updatePackageVersion"
    /\ running[p].pc = "write"
    /\ LET f == running[p]
           assigned == SetProperty(f.packageJson, VersionKey, JsString(f.newVersion))
           written == WriteFileSync(pkg, JSONStringify(assigned.ret, 2))
           failed == assigned.threw \/ written.threw
           writes == { running[q].wrote : q \in DOMAIN running }
           last == CHOOSE n \in writes : \A m \in writes : m <= n
       IN  /\ pkg' = IF failed THEN pkg ELSE written.ret
           /\ running' = [running EXCEPT ![p] =
                             IF failed THEN AfterUpdate(f)
                             ELSE [AfterUpdate(f) EXCEPT !.wrote = last + 1]]
    /\ UNCHANGED <<now, git, artifact, libVars, cliVars, ioVars>>

NextSteps ==
    \/ Tick
    \/ Commit
    \/ StartGenerate
    \/ StepQuery
    \/ StepReturn
    \/ StartUpdates
    \/ \E p \in DOMAIN running : StepRead(p)
    \/ \E p \in DOMAIN running : StepWrite(p)

SpecSteps == InitSteps /\ [][NextSteps]_vars

(***************************************************************************)
(* Properties.                                                             *)
(***************************************************************************)
\* The version format, written from its description: YY.MM.DD.N and
\* YY.MM.DD-type.N
DateBlock(d) ==
    TwoDigits(d.fullYear % 100) \o <<".">> \o TwoDigits(d.month + 1) \o <<".">>
        \o TwoDigits(d.date)
CleanForm(d, n) == DateBlock(d) \o <<".">> \o NatToString(n)
TypedForm(d, type, n) ==
    DateBlock(d) \o <<"-">> \o type \o <<".">> \o NatToString(n)
AllWhiteSpace(s) == \A i \in 1..Len(s) : s[i] \in WhiteSpace

\* the text after the last occurrence of a character
RECURSIVE AfterLast(_, _)
AfterLast(s, ch) ==
    IF s = <<>> \/ s[Len(s)] = ch THEN <<>>
    ELSE AfterLast(SubSeq(s, 1, Len(s) - 1), ch) \o <<s[Len(s)]>>

\* the text after the last dot of a version
AfterLastDot(s) == AfterLast(s, ".")

Generated == call.fn = "generateVersion" /\ call.commitCount # NoNumber

C2_OverridePrecedence ==
    (call.fn \in {"generateVersion", "getVersionInfo"}
        /\ call.options.overrideCommitCount # NoNumber) =>
        /\ call.queries = <<>>
        /\ call.fn = "generateVersion" =>
              /\ call.ret.t = "string"
              /\ AfterLastDot(call.ret.s)
                    = NatToString(call.options.overrideCommitCount[1])
        /\ call.fn = "getVersionInfo" =>
              /\ call.ret.t = "VersionInfo"
              /\ call.ret.buildNumber = call.options.overrideCommitCount[1]
              /\ AfterLastDot(call.ret.version)
                    = NatToString(call.options.overrideCommitCount[1])

C2_Witness ==
    /\ call.fn = "getVersionInfo"
    /\ call.options.overrideCommitCount = Some(0)
    /\ call.git.mode = "ok"
    /\ call.git.commits[GitDay(call.date)] > 0
    /\ call.ret.buildNumber = 0

\* C3: when the source-control query fails, getGitCommitCount returns 0 and
\* throws nothing, and the version generateVersion assembles ends in .0
C3_FallbackToZero ==
    /\ (call.fn = "getGitCommitCount" /\ call.git.mode \in GitFailureModes) =>
          (~call.threw /\ call.ret = JsNumber(0))
    /\ (call.fn = "generateVersion" /\ call.git.mode \in GitFailureModes
            /\ call.options.overrideCommitCount = NoNumber) =>
          (call.ret.t = "string" /\ EndsWith(call.ret.s, <<".", "0">>)
              /\ AfterLastDot(call.ret.s) = <<"0">>)

C3_Witness ==
    /\ call.fn = "generateVersion"
    /\ call.git.mode = "notRepository"
    /\ call.options.overrideCommitCount = NoNumber
    /\ call.queries # <<>>
    /\ call.ret = JsString(<<"2", "5", ".", "1", "2", ".", "2", "6", "-", "d", "e", "v", ".", "0">>)

\* the manifest, as a reader of JSON sees it
IsObjectManifest(file) ==
    /\ file.exists
    /\ ~JSONParse(file.text).threw
    /\ JSONParse(file.text).ret.t = "object"

\* the top-level fields of a manifest other than version: key and value
OtherFields(file) ==
    LET v == JSONParse(file.text).ret
    IN  CASE v.t = "object" ->
                { <<v.members[i].key, v.members[i].value>> :
                    i \in { j \in 1..Len(v.members) : v.members[j].key # VersionKey } }
          [] v.t = "array" -> { <<i, v.items[i]>> : i \in 1..Len(v.items) }
          [] OTHER -> {}

ReadBackAfterUpdate ==
    /\ call.fn = "getProjectVersion"
    /\ call.after.fn = "updatePackageVersion"
    /\ call.after.ret
    /\ IsObjectManifest(call.after.before)

\* C4 as stated: for every version string V, getProjectVersion returns V
\* after updatePackageVersion(V) returned true on a manifest.
C4_RoundTripEveryString ==
    ReadBackAfterUpdate => call.ret = JsString(call.after.newVersion)

\* C4 amended: for every version string V that is not empty,
\* getProjectVersion returns V after updatePackageVersion(V) returned true on
\* a manifest that holds a JSON object.
C4_RoundTrip ==
    (ReadBackAfterUpdate /\ call.after.newVersion # <<>>) =>
        call.ret = JsString(call.after.newVersion)

C4_Witness ==
    /\ ReadBackAfterUpdate
    /\ call.after.before = File(ManifestNested)
    /\ call.after.newVersion = VersionQuoted
    /\ call.ret = JsString(VersionQuoted)

ManifestScenarioUpdated ==
    <<"{", "\n", " ", " ", "\"", "n", "a", "m", "e", "\"", ":", " ", "\"",
      "x", "\"", ",", "\n", " ", " ", "\"", "v", "e", "r", "s", "i", "o",
      "n", "\"", ":", " ", "\"", "2", "5", ".", "0", "1", ".", "0", "1", ".",
      "1", "\"", "\n", "}">>

\* C5: a successful updatePackageVersion leaves every top-level field other
\* than version with its key and its value, and rewrites the manifest with
\* an indentation of two spaces.
C5_OtherFieldsKept ==
    (call.fn = "updatePackageVersion" /\ call.ret) =>
        /\ pkg.exists
        /\ ~JSONParse(pkg.text).threw
        /\ OtherFields(pkg) = OtherFields(call.before)
        /\ (call.before = File(ManifestCompact) /\ call.newVersion = VersionScenario)
              => pkg.text = ManifestScenarioUpdated

C5_Witness ==
    /\ call.fn = "updatePackageVersion"
    /\ call.ret
    /\ call.before = File(ManifestNested)
    /\ Cardinality(OtherFields(pkg)) = 2
    /\ pkg # call.before

\* the text of a version before its first hyphen, the whole text without one
BeforeFirstHyphen(s) ==
    LET hyphens == { i \in 1..Len(s) : s[i] = "-" }
    IN  IF hyphens = {} THEN s
        ELSE SubSeq(s, 1, (CHOOSE i \in hyphens : \A j \in hyphens : i <= j) - 1)

\* C6: getVersionDisplayString of the artifact returns the build version up
\* to its first hyphen, and the whole build version when it has no hyphen.
C6_DisplayString ==
    call.fn = "getVersionDisplayString" =>
        call.ret = JsString(BeforeFirstHyphen(call.BUILD_VERSION))

\* C7: a generateVersion call with the release type, the date and the build
\* number of a remembered call returns the string that call returned.
SameInputs(later, earlier) ==
    /\ later.fn = "generateVersion"
    /\ earlier.fn = "generateVersion"
    /\ later.releaseType = earlier.releaseType
    /\ later.date = earlier.date
    /\ later.commitCount = earlier.commitCount

Finished == pc = "exited"

HasSpace(s) == \E i \in 1..Len(s) : s[i] = " "

\* a text of decimal digits, the way a non-negative integer is written
DecimalDigits(s) ==
    /\ s # <<>>
    /\ \A i \in 1..Len(s) : \E k \in 1..10 : Digits[k] = s[i]

\* C8: a run whose release-type argument contains a space prints an error,
\* exits with a non-zero status and leaves the manifest as it was.
C8_SpaceRejected ==
    (Finished /\ Len(argv) >= 1 /\ HasSpace(argv[1])) =>
        /\ stderr # <<>>
        /\ exitCode # Some(0)
        /\ pkg = pkg0

\* C9: a run whose commit-count argument is given and is not a non-negative
\* integer prints an error, exits with a non-zero status and generates no
\* version (stated for the release type dev).
C9_BadCountRejected ==
    (Finished /\ Len(argv) = 2 /\ argv[1] = <<"d", "e", "v">>
        /\ argv[2] # <<>> /\ ~DecimalDigits(argv[2])) =>
        /\ stderr # <<>>
        /\ exitCode # Some(0)
        /\ version = Undefined

\* the last line of a text that ends with a line break
LastLine(text) == AfterLast(SubSeq(text, 1, Len(text) - 1), "\n")

\* C10: when a run has generated a version and exited with status 0, the
\* last line of its standard output is the version.
C10_VersionIsLastLine ==
    (Finished /\ version # Undefined /\ exitCode = Some(0)) =>
        /\ stdout # <<>>
        /\ stdout[Len(stdout)] = "\n"
        /\ LastLine(stdout) = version.s

\* how often an operation occurs among the operations of an invocation
Count(log, op) == Cardinality({ i \in 1..Len(log) : log[i] = op })

\* C11: an invocation (a library call or a command line run) makes at most
\* one source-control query, reads and writes the manifest at most once and
\* writes the artifact at most once.
C11_OperationsBounded ==
    /\ Count(ops, GitRevList) <= 1
    /\ Count(ops, ReadManifest) <= 1
    /\ Count(ops, WriteManifest) <= 1
    /\ Count(ops, WriteArtifact) <= 1

\* a text on standard error that holds the warning of an override
HasOverrideWarning(text) ==
    \E i \in 1..Len(text) : text[i] = "WARNING: Using manual commit count ("

\* C12: generateVersion and getVersionInfo write the override warning
\* exactly when an override is given and silent is not set, and then the
\* warning names the override.
C12_WarningUnlessSilent ==
    call.fn \in {"generateVersion", "getVersionInfo"} =>
        IF call.options.overrideCommitCount # NoNumber /\ ~call.options.silent
        THEN call.stderr =
                <<"WARNING: Using manual commit count (">>
                    \o NatToString(call.options.overrideCommitCount[1])
                    \o <<") instead of git history", "\n">>
        ELSE ~HasOverrideWarning(call.stderr)

C12_Witness ==
    /\ call.fn = "getVersionInfo"
    /\ call.releaseType = <<"d", "e", "v">>
    /\ call.options = [silent |-> FALSE, overrideCommitCount |-> Some(10)]
    /\ HasOverrideWarning(stderr)
    /\ call.ret.version = TypedForm(call.date, <<"d", "e", "v">>, 10)

\* the options of a call with silent the other way round
OtherSilent(options) == [options EXCEPT !.silent = ~@]

\* what the function of a call returns for the inputs of the call (release
\* type, date, source control) and the given options
ReturnedWith(made, options) ==
    IF made.fn = "generateVersion"
    THEN generateVersion(made.releaseType, options, made.date, made.git)
    ELSE getVersionInfo(made.releaseType, options, made.date, made.git)

\* C13: generateVersion and getVersionInfo return the same value with
\* silent set as with silent not set, for the same release type, date,
\* source control and override.
C13_SilentSameResult ==
    call.fn \in {"generateVersion", "getVersionInfo"} =>
        call.ret = ReturnedWith(call, OtherSilent(call.options)).ret

C13_Witness ==
    /\ call.fn = "generateVersion"
    /\ call.options = [silent |-> TRUE, overrideCommitCount |-> Some(10)]
    /\ call.ret = JsString(TypedForm(call.date, <<"d", "e", "v">>, 10))
    /\ call.stderr = <<>>
    /\ HasOverrideWarning(ReturnedWith(call, OtherSilent(call.options)).stderr)

\* the functions the library exports
LibraryFunctions ==
    { "getProjectVersion", "generateVersion", "getVersionInfo",
      "getGitCommitCount", "updatePackageVersion", "generateAndUpdateVersion",
      "createVersionFile" }

\* git is not installed, or the project is not a repository
GitMissing(g) == g.mode \in {"notInstalled", "notRepository"}

\* C14: no exported function lets an exception out, and the function that
\* meets a missing manifest, an artifact it cannot write or a missing git or
\* repository returns its sentinel: null, 0 or false (generateVersion and
\* getVersionInfo, which get the 0 of getGitCommitCount, return a result
\* with build number 0).
C14_NoThrowSentinel ==
    /\ call.fn \in LibraryFunctions => ~call.threw
    /\ (call.fn = "getProjectVersion" /\ ~call.before.exists) => call.ret = Null
    /\ (call.fn = "updatePackageVersion" /\ ~call.before.exists) =>
            call.ret = FALSE
    /\ (call.fn = "generateAndUpdateVersion" /\ ~call.before.exists) =>
            call.ret = Null
    /\ (call.fn = "createVersionFile" /\ call.before.exists
            /\ ~call.before.writable) => call.ret = FALSE
    /\ (call.fn = "getGitCommitCount" /\ GitMissing(call.git)) =>
            call.ret = JsNumber(0)
    /\ (call.fn \in {"generateVersion", "getVersionInfo"} /\ GitMissing(call.git)
            /\ call.options.overrideCommitCount = NoNumber) =>
            (call.ret \notin {Undefined, Null} /\ call.commitCount = Some(0))

C14_Witness ==
    /\ call.fn = "generateAndUpdateVersion"
    /\ call.git.mode = "notInstalled"
    /\ ~call.before.exists
    /\ call.called
    /\ call.queries # <<>>
    /\ call.ret = Null
    /\ ~pkg.exists
    /\ ~call.threw

\* a manifest the update can rewrite: a writable file that holds a JSON object
IsWritableManifest(file) == IsObjectManifest(file) /\ file.writable

\* a manifest the update fails on: missing, not writable or not JSON
IsFailingManifest(file) ==
    \/ ~file.exists
    \/ ~file.writable
    \/ JSONParse(file.text).threw

\* C15: generateAndUpdateVersion returns the version generateVersion
\* generates for the same inputs when the manifest could be updated, and the
\* manifest then holds that version; it returns null, and leaves the
\* manifest as it was, when the manifest is missing, unwritable or unparsable.
C15_VersionOrNull ==
    call.fn = "generateAndUpdateVersion" =>
        /\ IsWritableManifest(call.before) =>
              /\ call.ret.t = "string"
              /\ call.ret = generateVersion(call.releaseType, call.options,
                                            call.date, call.git).ret
              /\ getProjectVersion(DefaultOptions, pkg).ret = call.ret
        /\ IsFailingManifest(call.before) =>
              /\ call.ret = Null
              /\ pkg = call.before

C15_Witness ==
    /\ call.fn = "generateAndUpdateVersion"
    /\ call.before = File(ManifestCompact)
    /\ call.git.mode = "ok"
    /\ call.options.overrideCommitCount = NoNumber
    /\ call.ret = JsString(TypedForm(call.date, <<"d", "e", "v">>, 2))
    /\ getProjectVersion(DefaultOptions, pkg).ret = call.ret
    /\ pkg # call.before

\* the first argument of the run is the help flag
HelpRequested ==
    /\ Len(argv) >= 1
    /\ argv[1] \in { <<"-", "h">>, <<"-", "-", "h", "e", "l", "p">> }

\* C16: a run with --help or -h as its first argument prints the usage,
\* ends with status 0, generates no version and makes no query and no file
\* operation: the manifest is as it was.
C16_HelpOnly ==
    (Finished /\ HelpRequested) =>
        /\ \E i \in 1..Len(stdout) : stdout[i] = "Usage:"
        /\ \E i \in 1..Len(stdout) :
              stdout[i] = "  npm-version [type] [commit-count]"
        /\ stderr = <<>>
        /\ exitCode = Some(0)
        /\ version = Undefined
        /\ ops = <<>>
        /\ pkg = pkg0

C16_Witness ==
    /\ Finished
    /\ argv = << <<"-", "-", "h", "e", "l", "p">>, <<"5">> >>
    /\ pkg = File(ManifestCompact)
    /\ stdout = ShowHelp
    /\ exitCode = Some(0)

\* the first argument of the run is the integer n, as it is written
FirstArgumentIs(n) == Len(argv) >= 1 /\ argv[1] = NatToString(n)

GeneratedByCli == version # Undefined

\* C18: the release type the command line tool passes to generateVersion
\* holds no whitespace character.
C18_NoWhiteSpacePassed ==
    GeneratedByCli => \A i \in 1..Len(arg) : arg[i] \notin WhiteSpace

\* the build number a call resolves: the override, or the commits of the day
ResolvedBuildNumber(made) ==
    IF made.options.overrideCommitCount # NoNumber
    THEN made.options.overrideCommitCount[1]
    ELSE IF made.git.mode = "ok" THEN made.git.commits[GitDay(made.date)] ELSE 0

\* C19: getVersionInfo returns releaseType release and the version
\* dateVersion.buildNumber for a release type that is empty or only
\* whitespace, and releaseType t and the version dateVersion-t.buildNumber
\* for every other release type t, with dateVersion YY.MM.DD and
\* buildNumber the resolved build number.
C19_VersionInfoFields ==
    (call.fn = "getVersionInfo" /\ call.ret # Null) =>
        LET n == ResolvedBuildNumber(call)
        IN  /\ call.ret.dateVersion = DateBlock(call.date)
            /\ call.ret.buildNumber = n
            /\ IF AllWhiteSpace(call.releaseType)
               THEN /\ call.ret.releaseType = <<"r", "e", "l", "e", "a", "s", "e">>
                    /\ call.ret.version = CleanForm(call.date, n)
               ELSE /\ call.ret.releaseType = call.releaseType
                    /\ call.ret.version = TypedForm(call.date, call.releaseType, n)

\* the operations on files
FileOps == {ReadManifest, WriteManifest, WriteArtifact}

\* the functions of the library that write files
WritingFunctions ==
    {"generateAndUpdateVersion", "updatePackageVersion", "createVersionFile"}

\* C20: a call of generateVersion, with or without an override, leaves the
\* manifest and the artifact as they were and makes no file operation; a
\* call that changes a file or writes one is a call of
\* generateAndUpdateVersion, updatePackageVersion or createVersionFile.
C20_GenerateVersionWritesNothing ==
    [][ncalls' = ncalls + 1 =>
            /\ call'.fn = "generateVersion" =>
                  /\ pkg' = pkg
                  /\ artifact' = artifact
                  /\ \A i \in 1..Len(ops') : ops'[i] \notin FileOps
            /\ (\/ pkg' # pkg
                \/ artifact' # artifact
                \/ \E i \in 1..Len(ops') : ops'[i] \in {WriteManifest, WriteArtifact})
                  => call'.fn \in WritingFunctions]_vars

C20_Witness ==
    /\ call.fn = "generateVersion"
    /\ call.options.overrideCommitCount = NoNumber
    /\ call.ret = JsString(CleanForm(call.date, 2))
    /\ ops = <<GitRevList>>
    /\ pkg = File(ManifestCompact)
    /\ artifact = CheckedInArtifact

\* the concurrent updates have all returned
UpdatesFinished ==
    /\ running # <<>>
    /\ \A p \in DOMAIN running :
          running[p].fn = "updatePackageVersion" /\ running[p].pc = "done"

\* the frame whose write of the manifest came last
LastWriter ==
    CHOOSE p \in DOMAIN running :
        \A q \in DOMAIN running : running[q].wrote <= running[p].wrote

\* C21: when two invocations that update the same manifest, their reads and
\* writes of the file interleaved in any order, have both finished and at
\* least one of them wrote, the manifest is well-formed and its version is
\* the version of the invocation whose write came last.
C21_LastWriterWins ==
    (UpdatesFinished /\ running[LastWriter].wrote > 0) =>
        /\ IsObjectManifest(pkg)
        /\ GetProperty(JSONParse(pkg.text).ret, VersionKey).ret =
              JsString(running[LastWriter].newVersion)

\* both invocations wrote, three writes in all of which the second
\* invocation made the last, and their versions differ
C21_Witness ==
    /\ UpdatesFinished
    /\ running[1].wrote = 2
    /\ running[2].wrote = 3
    /\ running[1].newVersion = VersionDev
    /\ running[2].newVersion = VersionRelease
    /\ GetProperty(JSONParse(pkg.text).ret, VersionKey).ret = JsString(VersionRelease)

\* how often a character occurs in a text
Occurrences(s, ch) == Cardinality({ i \in 1..Len(s) : s[i] = ch })

\* C22: for a release type that is empty or holds only whitespace,
\* generateVersion returns YY.MM.DD.buildNumber: four components separated
\* by three dots, no hyphen and no type segment.
C22_BlankTypeIsClean ==
    (Generated /\ AllWhiteSpace(call.releaseType)) =>
        /\ call.ret.t = "string"
        /\ Occurrences(call.ret.s, ".") = 3
        /\ Occurrences(call.ret.s, "-") = 0
        /\ SubSeq(call.ret.s, 1, 8) = DateBlock(call.date)
        /\ SubSeq(call.ret.s, 10, Len(call.ret.s)) = NatToString(call.commitCount[1])

C22_Witness ==
    /\ Generated
    /\ call.releaseType = <<"\t", " ">>
    /\ call.ret = JsString(<<"2", "5", ".", "1", "2", ".", "2", "6", ".", "2">>)

\* a text of decimal digits alone
NumericLooking(s) ==
    s # <<>> /\ \A i \in 1..Len(s) : \E j \in 1..Len(Digits) : s[i] = Digits[j]

\* C24: a release type of digits alone, such as "0" or "42", passed to
\* generateVersion is a type label: the result is YY.MM.DD-type.N with the
\* build number N the override or the commits of the day, never the clean
\* form and never a build number taken from the release type.
C24_NumericTypeIsLabel ==
    (Generated /\ NumericLooking(call.releaseType)) =>
        /\ call.ret = JsString(TypedForm(call.date, call.releaseType,
                                         ResolvedBuildNumber(call)))
        /\ call.commitCount = Some(ResolvedBuildNumber(call))
        /\ (call.options.overrideCommitCount = NoNumber =>
              call.queries = <<GitDay(call.date)>>)

C24_Witness ==
    /\ Generated
    /\ call.releaseType = <<"0">>
    /\ call.options.overrideCommitCount = NoNumber
    /\ call.ret = JsString(<<"2", "5", ".", "1", "2", ".", "2", "6", "-", "0", ".", "1">>)

\* a manifest that is missing or whose text JSON.parse rejects
MissingOrUnparsable(file) == ~file.exists \/ JSONParse(file.text).threw

\* C23: on a manifest that is missing or unparsable updatePackageVersion
\* returns false without throwing, and the manifest is afterwards as it was
\* before: the call only read, a missing manifest is still missing and an
\* unparsable one holds its text.
C23_FailedUpdateChangesNothing ==
    (call.fn = "updatePackageVersion" /\ MissingOrUnparsable(call.before)) =>
        /\ call.ret = FALSE
        /\ ~call.threw
        /\ pkg = call.before
        /\ ops = <<ReadManifest>>

C23_Witness ==
    /\ call.fn = "updatePackageVersion"
    /\ call.before = File(ManifestTruncated)
    /\ call.newVersion = VersionDev
    /\ call.ret = FALSE
    /\ pkg = File(ManifestTruncated)

\* the commits git reports at this moment for the day of the clock, 0 when
\* the query fails
CommitsOfToday == IF git.mode = "ok" THEN git.commits[GitDay(now)] ELSE 0

\* the version string a call returned
ReturnedVersion(made) ==
    IF made.fn = "generateVersion" THEN made.ret.s ELSE made.ret.version

\* C25: a call of generateVersion or getVersionInfo without an override
\* makes one query of its own for the day and returns the count git reports
\* at the moment of the call, whatever an earlier call of the same process
\* found for the same date.
C25_NeverCached ==
    (call.fn \in {"generateVersion", "getVersionInfo"}
        /\ call.options.overrideCommitCount = NoNumber) =>
        /\ call.queries = <<GitDay(now)>>
        /\ call.commitCount = Some(CommitsOfToday)
        /\ AfterLastDot(ReturnedVersion(call)) = NatToString(CommitsOfToday)

\* two calls on the same date with commits made in between: the earlier
\* call found one commit and the later one finds two
C25_Witness ==
    /\ call.fn = "getVersionInfo"
    /\ call.options.overrideCommitCount = NoNumber
    /\ memo.fn = "generateVersion"
    /\ memo.date = call.date
    /\ memo.commitCount = Some(1)
    /\ call.commitCount = Some(2)
    /\ call.ret.buildNumber = 2

\* C26: the version field getVersionInfo returns is the string
\* generateVersion returns for the same release type and options at the same
\* date and repository state.
C26_InfoVersionIsGeneratedVersion ==
    (call.fn = "getVersionInfo" /\ call.ret # Null) =>
        JsString(call.ret.version) =
            generateVersion(call.releaseType, call.options, call.date, call.git).ret

\* the run printed the version and ended with status 0
PrintedVersion == Finished /\ exitCode = Some(0) /\ version # Undefined

\* C27: when a command line run ends with status 0 after printing the
\* version V, package.json holds the version V.
C27_PrintedVersionIsInManifest ==
    PrintedVersion =>
        /\ IsObjectManifest(pkg)
        /\ GetProperty(JSONParse(pkg.text).ret, VersionKey).ret = version

\* the run printed the usage
UsagePrinted == \E i \in 1..Len(stdout) : stdout[i] = "Usage:"

\* C28: a run whose first argument holds no space and is neither --help nor
\* -h prints no usage, also when the argument holds -h as a substring; with
\* that argument alone the run generates a version and ends with status 0.
C28_HelpOnlyWhenExact ==
    (Finished /\ Len(argv) >= 1 /\ ~HasSpace(argv[1]) /\ ~HelpRequested) =>
        /\ ~UsagePrinted
        /\ Len(argv) = 1 => (version # Undefined /\ exitCode = Some(0))

\* C29: a command line run that ends with status 1 leaves the manifest as
\* it was when the run started and has written it at no moment.
C29_FailedRunChangesNothing ==
    (Finished /\ exitCode = Some(1)) =>
        /\ pkg = pkg0
        /\ Count(ops, WriteManifest) = 0

C29_Witness ==
    /\ Finished
    /\ exitCode = Some(1)
    /\ argv = << <<"d", "e", "v">>, <<"a", "b", "c">> >>
    /\ pkg0 = File(ManifestCompact)
    /\ pkg = File(ManifestCompact)
    /\ stderr # <<>>

\* a call of generateVersion or getVersionInfo, followed statement by
\* statement, has returned after a query of git
ReturnedAfterQuery ==
    /\ running # <<>>
    /\ running[1].fn \in {"generateVersion", "getVersionInfo"}
    /\ running[1].pc = "done"
    /\ running[1].queried # <<>>

\* the day YYYY-MM-DD of a query is the day of the date block YY.MM.DD
SameDay(todayStr, ver) ==
    /\ SubSeq(todayStr, 3, 4) = SubSeq(ver, 1, 2)
    /\ SubSeq(todayStr, 6, 7) = SubSeq(ver, 4, 5)
    /\ SubSeq(todayStr, 9, 10) = SubSeq(ver, 7, 8)
    /\ todayStr[5] = "-" /\ todayStr[8] = "-" /\ ver[3] = "." /\ ver[6] = "."

\* C30: in one call of generateVersion or getVersionInfo the day given to
\* the git query is the day of the date block of the version returned,
\* also when the clock passes midnight while the call runs.
C30_OneClockReading ==
    ReturnedAfterQuery =>
        /\ Len(running[1].queried) = 1
        /\ SameDay(running[1].queried[1], ReturnedVersion(running[1]))

\* the clock moved to another day after the call had read it
C30_Witness ==
    /\ ReturnedAfterQuery
    /\ running[1].fn = "generateVersion"
    /\ running[1].now # now
    /\ running[1].queried = << <<"2", "0", "0", "5", "-", "0", "1", "-", "0", "9">> >>
    /\ running[1].ret = JsString(<<"0", "5", ".", "0", "1", ".", "0", "9", "-", "d", "e", "v", ".", "0">>)

====
